---- MODULE Spec2Model ----
(***************************************************************************)
(* Wallet / order / payment settlement flow of the danacup backend.        *)
(*                                                                         *)
(* The store holds one user's wallet row, the Transaction rows, the user's *)
(* orders and the Payment row of each order.  Every HTTP request is a      *)
(* request slot that walks through the statements of its view; a slot      *)
(* keeps the model instances the view loaded (a Django instance is a copy  *)
(* of its row, and save() writes every field of the copy back).  A write   *)
(* to the store either takes effect or raises; the views catch the         *)
(* exception and answer 400.  Money is counted in whole units.             *)
(*                                                                         *)
(* The cart and checkout endpoints have their own part of the store (the   *)
(* cart's lines, the catalog prices, the orders made from the cart) and    *)
(* their own request slots.  Spec and SpecConc run the settlement          *)
(* endpoints, SpecWallet the wallet endpoints alone, SpecCart the cart and *)
(* create_from_cart.                                                       *)
(***************************************************************************)
EXTENDS Integers, Sequences, FiniteSets, Bags, TLC

\* ---------------------------------------------------------------- bounds
NumOrders == 1
MaxAmount == 2
MaxBalance == 3
MaxTxns == 6
MaxConcReqs == 3
NumProducts == 2
MaxQuantity == 2
MaxPrice == 2
MaxPlaced == 2
MaxFails == 3

Procs == {1, 2}
Orders == 1..NumOrders
NoOrder == 0
Products == 1..NumProducts
NoProduct == 0

\* ------------------------------------------------------- model constants
\* core.models.Order.STATUS_CHOICES
STATUS_CHOICES == {"pending", "processing", "shipped", "delivered", "cancelled"}
\* core.models.Order.PAYMENT_STATUS_CHOICES
PAYMENT_STATUS_CHOICES == {"pending", "paid", "failed", "refunded"}
\* core.models.Payment.PAYMENT_METHOD_CHOICES
PAYMENT_METHOD_CHOICES == {"wallet", "credit_card", "bank_transfer"}
\* core.models.Payment.STATUS_CHOICES
PAYMENT_RECORD_STATUS_CHOICES == {"pending", "completed", "failed", "refunded"}
\* core.models.Transaction.TRANSACTION_TYPES
TRANSACTION_TYPES == {"deposit", "withdrawal", "purchase", "refund"}

\* the payment_method values a request may carry: the three choices and one
\* value the view does not know
RequestMethods == PAYMENT_METHOD_CHOICES \cup {"paypal"}

VARIABLES
    balance,      \* Wallet.balance of the user's wallet row
    txns,         \* the Transaction rows (a bag: rows without their ids)
    orders,       \* Order rows: status, payment_status, total_amount
    payments,     \* the Payment row of each order (OneToOneField), if any
    req,          \* the request slots
    last,         \* the pay that returned last, if the last request was one
    nreq,         \* requests accepted so far when requests may overlap
    initBalance,  \* the wallet balance before the first request
    cart,         \* the CartItem rows of the user's cart: quantity per product
    price,        \* Product.price of each product
    placed,       \* the Order rows made from the cart, with their OrderItem rows
    creq,         \* the request slots of the cart and checkout endpoints
    wpc,          \* wait_for_db: the statement the command is at
    walias,       \* wait_for_db: the position of the loop in DATABASES
    up,           \* wait_for_db: the loop's flag
    wfails,       \* how often the check of each alias is still going to fail
    wfails0,      \* the same, when the command started
    wchecks,      \* how often self.check was called for each alias
    wdone         \* the aliases reported available

\* the store of the settlement endpoints, and the store of cart and checkout
settleVars == <<balance, txns, orders, payments, req, last, nreq, initBalance>>
cartVars == <<cart, price, placed, creq>>
waitVars == <<wpc, walias, up, wfails, wfails0, wchecks, wdone>>
vars == <<settleVars, cartVars, waitVars>>

NoPayment == [exists |-> FALSE, amount |-> 0, payment_method |-> "none", status |-> "none"]
NoOrderRow == [status |-> "none", payment_status |-> "none", total_amount |-> 0]
NoLast == [op |-> "none", o |-> NoOrder, bal0 |-> 0, amt |-> 0, txns0 |-> EmptyBag]
NoPre == [taken |-> FALSE, balance |-> 0, txns |-> EmptyBag,
          order |-> NoOrderRow, payment |-> NoPayment]

Idle == [pc |-> "idle", op |-> "none", o |-> NoOrder, amt |-> 0, method |-> "none",
         order |-> NoOrderRow, wbal |-> 0, payment |-> NoPayment,
         resp |-> "none", pre |-> NoPre, prev |-> NoLast]

\* settings.DATABASES.keys(), in their order
DATABASES == <<"default", "mongodb">>
Aliases == {DATABASES[i] : i \in 1..Len(DATABASES)}

\* wait_for_db is not running
WaitOff ==
    /\ wpc = "off"
    /\ walias = 1
    /\ up = FALSE
    /\ wfails = [a \in Aliases |-> 0]
    /\ wfails0 = wfails
    /\ wchecks = [a \in Aliases |-> 0]
    /\ wdone = {}

\* a cart without CartItem rows
NoItems == [pr \in Products |-> 0]
NoCartPre == [cart |-> NoItems, placed |-> <<>>]
CartIdle == [pc |-> "idle", op |-> "none", product |-> NoProduct, quantity |-> 0,
             oid |-> 0, todo |-> {}, resp |-> "none", pre |-> NoCartPre]

\* core.models.Transaction row
Txn(type, amount, order) == [transaction_type |-> type, amount |-> amount, order |-> order]

\* Transaction.objects.create(...)
Transaction_create(tx, type, amount, order) == tx (+) SetToBag({Txn(type, amount, order)})

\* ------------------------------------------------------------ the ledger
\* core.models.Wallet declares no deposit and no withdraw method; the views
\* call both.  The two methods are taken from the specification (4.1).
\*
\* Wallet.deposit(amount): the balance grows by amount and one deposit
\* Transaction is appended, as one unit.
Wallet_depositBalance(bal, amount) == bal + amount
Wallet_depositTxns(tx, amount) == Transaction_create(tx, "deposit", amount, NoOrder)

\* Wallet.withdraw(amount): fails with InsufficientFunds when the stored
\* balance is below amount; otherwise the balance shrinks by amount and one
\* withdrawal Transaction is appended, as one unit.
\* (variants: a withdraw that never refuses; one that only wants some money)
Wallet_canWithdraw_unchecked(bal, amount) == TRUE
Wallet_canWithdraw_anyMoney(bal, amount) == bal > 0
Wallet_canWithdraw(bal, amount) == bal >= amount
Wallet_withdrawBalance(bal, amount) == bal - amount
Wallet_withdrawTxns(tx, amount) == Transaction_create(tx, "withdrawal", amount, NoOrder)

\* ---------------------------------------------------------------- Init
\* A wallet with some balance and no transactions yet; orders that were
\* created from a cart earlier and are unpaid, in any status the staff
\* (core.admin.OrderAdmin) may have given them.
Init ==
    /\ balance \in 0..MaxBalance
    /\ initBalance = balance
    /\ txns = EmptyBag
    /\ orders \in [Orders -> [status : STATUS_CHOICES,
                              payment_status : {"pending"},
                              total_amount : 1..MaxAmount]]
    /\ payments = [o \in Orders |-> NoPayment]
    /\ req = [p \in Procs |-> Idle]
    /\ last = NoLast
    /\ nreq = 0
    /\ cart = NoItems
    /\ price = [pr \in Products |-> 1]
    /\ placed = <<>>
    /\ creq = [p \in Procs |-> CartIdle]
    /\ WaitOff

\* ------------------------------------------------------- request helpers
Active(p) == req[p].pc # "idle"

OrderRowOf(o) == IF o \in Orders THEN orders[o] ELSE NoOrderRow
PaymentRowOf(o) == IF o \in Orders THEN payments[o] ELSE NoPayment

Snapshot(o) == [taken |-> TRUE, balance |-> balance, txns |-> txns,
                order |-> OrderRowOf(o), payment |-> PaymentRowOf(o)]

\* The view returns a response.  "ok" is a 2xx answer; the other names are
\* the error answers the views build themselves; an exception the view
\* catches is answered 400 with str(e), written here "exc:" and its name.
Respond(p, r) == req' = [req EXCEPT ![p].pc = "done", ![p].resp = r]

DatabaseError == "exc:DatabaseError"
IntegrityError == "exc:IntegrityError"
InsufficientFundsError == "exc:InsufficientFunds"

FirstPc(op) ==
    CASE op = "order_pay" -> "pay_load"
      [] op = "process_payment" -> "pp_load"
      [] op = "refund" -> "rf_load"
      [] op = "payment_cancel" -> "pcn_load"
      [] op = "order_cancel" -> "oc_load"
      [] op = "wallet_deposit" -> "wv_deposit"
      [] op = "wallet_withdraw" -> "wv_withdraw"
      [] op = "deposit_view" -> "dv_post"
      [] op = "withdraw_view" -> "wd_check"

OrderOps == {"order_pay", "order_cancel", "refund", "payment_cancel"}
WalletOps == {"wallet_deposit", "wallet_withdraw", "deposit_view", "withdraw_view"}
DepositOps == {"wallet_deposit", "deposit_view"}
PayOps == {"order_pay", "process_payment"}

\* the most Transaction rows a request of this kind creates
TxnCost(op) ==
    CASE op \in {"process_payment", "refund"} -> 2
      [] op \in {"payment_cancel", "none"} -> 0
      [] OTHER -> 1

\* A request arrives in slot p.  Slot 2 is only taken while slot 1 is busy.
\* With observe, the slot remembers the store as the request found it.
\* The ledger and the balance are kept within the bounds by refusing
\* requests that could exceed them.
Arrive(p, op, o, amt, method, observe) ==
    /\ ~Active(p)
    /\ p = 2 => Active(1)
    /\ BagCardinality(txns) + TxnCost(req[1].op) + TxnCost(req[2].op) + TxnCost(op) <= MaxTxns
    /\ op \in DepositOps => balance + amt <= MaxBalance
    /\ req' = [req EXCEPT ![p] = [Idle EXCEPT !.pc = FirstPc(op), !.op = op, !.o = o,
                                              !.amt = amt, !.method = method,
                                              !.pre = IF observe THEN Snapshot(o) ELSE NoPre,
                                              !.prev = IF observe THEN last ELSE NoLast]]
    /\ UNCHANGED <<balance, txns, orders, payments, last, initBalance, cartVars, waitVars>>

Begin(p, observe) ==
    \/ \E op \in OrderOps, o \in Orders : Arrive(p, op, o, 0, "none", observe)
    \/ \E o \in Orders \cup {NoOrder}, m \in RequestMethods :
          Arrive(p, "process_payment", o, 0, m, observe)
    \/ \E op \in WalletOps, a \in 0..MaxAmount : Arrive(p, op, NoOrder, a, "none", observe)

\* The response has been sent: the slot is free again.
Return(p) ==
    /\ req[p].pc = "done"
    /\ last' = IF req[p].op \in PayOps /\ req[p].resp = "ok" /\ req[p].pre.taken
               THEN [NoLast EXCEPT !.op = req[p].op, !.o = req[p].o,
                                   !.bal0 = req[p].pre.balance]
               ELSE NoLast
    /\ req' = [req EXCEPT ![p] = Idle]
    /\ UNCHANGED <<balance, txns, orders, payments, nreq, initBalance, cartVars, waitVars>>

\* The response of a wallet endpoint has been sent.  What is remembered of
\* it is the successful deposit: its amount, and the balance and the ledger
\* it found.
ReturnWallet(p) ==
    /\ req[p].pc = "done"
    /\ last' = IF req[p].op \in DepositOps /\ req[p].resp = "ok" /\ req[p].pre.taken
               THEN [NoLast EXCEPT !.op = req[p].op, !.bal0 = req[p].pre.balance,
                                   !.amt = req[p].amt, !.txns0 = req[p].pre.txns]
               ELSE NoLast
    /\ req' = [req EXCEPT ![p] = Idle]
    /\ UNCHANGED <<balance, txns, orders, payments, nreq, initBalance, cartVars, waitVars>>

\* ------------------------------------------------------ wallet endpoints
\* WalletViewSet.deposit
WalletViewSet_deposit(p) ==
    /\ req[p].pc = "wv_deposit"
    /\ IF req[p].amt <= 0
       THEN /\ Respond(p, "InvalidAmount")
            /\ UNCHANGED <<balance, txns>>
       ELSE \/ /\ balance' = Wallet_depositBalance(balance, req[p].amt)
               /\ txns' = Wallet_depositTxns(txns, req[p].amt)
               /\ Respond(p, "ok")
            \/ /\ Respond(p, DatabaseError)
               /\ UNCHANGED <<balance, txns>>
    /\ UNCHANGED <<orders, payments, last, nreq, initBalance, cartVars, waitVars>>

\* WalletViewSet.withdraw
WalletViewSet_withdraw(p) ==
    /\ req[p].pc = "wv_withdraw"
    /\ IF req[p].amt <= 0
       THEN /\ Respond(p, "InvalidAmount")
            /\ UNCHANGED <<balance, txns>>
       ELSE IF ~Wallet_canWithdraw(balance, req[p].amt)
       THEN /\ Respond(p, InsufficientFundsError)
            /\ UNCHANGED <<balance, txns>>
       ELSE \/ /\ balance' = Wallet_withdrawBalance(balance, req[p].amt)
               /\ txns' = Wallet_withdrawTxns(txns, req[p].amt)
               /\ Respond(p, "ok")
            \/ /\ Respond(p, DatabaseError)
               /\ UNCHANGED <<balance, txns>>
    /\ UNCHANGED <<orders, payments, last, nreq, initBalance, cartVars, waitVars>>

\* WalletDepositView.post
WalletDepositView_post(p) ==
    /\ req[p].pc = "dv_post"
    /\ IF req[p].amt <= 0
       THEN /\ Respond(p, "InvalidAmount")
            /\ UNCHANGED <<balance, txns>>
       ELSE \/ /\ balance' = Wallet_depositBalance(balance, req[p].amt)
               /\ txns' = Wallet_depositTxns(txns, req[p].amt)
               /\ Respond(p, "ok")
            \/ /\ Respond(p, DatabaseError)
               /\ UNCHANGED <<balance, txns>>
    /\ UNCHANGED <<orders, payments, last, nreq, initBalance, cartVars, waitVars>>

\* WalletWithdrawView.post: wallet.balance < amount
\* (variant: the whole balance cannot be taken out)
WalletWithdrawView_insufficient_orEqual(bal, amount) == bal <= amount
WalletWithdrawView_insufficient(bal, amount) == bal < amount

\* WalletWithdrawView.post, up to its balance check
WalletWithdrawView_check(p) ==
    /\ req[p].pc = "wd_check"
    /\ IF req[p].amt <= 0
       THEN Respond(p, "InvalidAmount")
       ELSE IF WalletWithdrawView_insufficient(balance, req[p].amt)
       THEN req' = [req EXCEPT ![p].pc = "done", ![p].resp = "InsufficientFunds",
                               ![p].wbal = balance]
       ELSE req' = [req EXCEPT ![p].pc = "wd_withdraw", ![p].wbal = balance]
    /\ UNCHANGED <<balance, txns, orders, payments, last, nreq, initBalance, cartVars, waitVars>>

\* WalletWithdrawView.post, the withdrawal
WalletWithdrawView_withdraw(p) ==
    /\ req[p].pc = "wd_withdraw"
    /\ IF ~Wallet_canWithdraw(balance, req[p].amt)
       THEN /\ Respond(p, InsufficientFundsError)
            /\ UNCHANGED <<balance, txns>>
       ELSE \/ /\ balance' = Wallet_withdrawBalance(balance, req[p].amt)
               /\ txns' = Wallet_withdrawTxns(txns, req[p].amt)
               /\ Respond(p, "ok")
            \/ /\ Respond(p, DatabaseError)
               /\ UNCHANGED <<balance, txns>>
    /\ UNCHANGED <<orders, payments, last, nreq, initBalance, cartVars, waitVars>>

\* --------------------------------------------------------- OrderViewSet
\* OrderViewSet.pay: order.payment_status == "paid"
\* (variant: the check left out)
OrderViewSet_pay_alreadyPaid_never(order) == FALSE
OrderViewSet_pay_alreadyPaid(order) == order.payment_status = "paid"

\* OrderViewSet.pay: wallet.balance < order.total_amount
\* (variant: the comparison turned around)
OrderViewSet_pay_insufficient_reversed(bal, order) == bal > order.total_amount
OrderViewSet_pay_insufficient(bal, order) == bal < order.total_amount

\* OrderViewSet.cancel: order.status not in ["pending", "processing"]
\* (variant: shipped orders may be cancelled too)
OrderViewSet_cancel_refused_shippedToo(order) ==
    order.status \notin {"pending", "processing", "shipped"}
OrderViewSet_cancel_refused(order) == order.status \notin {"pending", "processing"}

\* OrderViewSet.cancel: order.payment_status == "paid"
\* (variant: the test reads order.status)
OrderViewSet_cancel_refunds_wrongField(order) == order.status = "paid"
OrderViewSet_cancel_refunds(order) == order.payment_status = "paid"

\* OrderViewSet.pay: get_object() and the already-paid check
OrderViewSet_pay_load(p) ==
    /\ req[p].pc = "pay_load"
    /\ LET order == orders[req[p].o] IN
         IF OrderViewSet_pay_alreadyPaid(order)
         THEN req' = [req EXCEPT ![p].pc = "done", ![p].resp = "AlreadyPaid",
                                 ![p].order = order]
         ELSE req' = [req EXCEPT ![p].pc = "pay_check", ![p].order = order]
    /\ UNCHANGED <<balance, txns, orders, payments, last, nreq, initBalance, cartVars, waitVars>>

\* OrderViewSet.pay: request.user.wallet and the balance check
OrderViewSet_pay_check(p) ==
    /\ req[p].pc = "pay_check"
    /\ IF OrderViewSet_pay_insufficient(balance, req[p].order)
       THEN req' = [req EXCEPT ![p].pc = "done", ![p].resp = "InsufficientFunds",
                               ![p].wbal = balance]
       ELSE req' = [req EXCEPT ![p].pc = "pay_withdraw", ![p].wbal = balance]
    /\ UNCHANGED <<balance, txns, orders, payments, last, nreq, initBalance, cartVars, waitVars>>

\* OrderViewSet.pay: wallet.withdraw(order.total_amount)
OrderViewSet_pay_withdraw(p) ==
    /\ req[p].pc = "pay_withdraw"
    /\ LET amount == req[p].order.total_amount IN
         IF ~Wallet_canWithdraw(balance, amount)
         THEN /\ Respond(p, InsufficientFundsError)
              /\ UNCHANGED <<balance, txns>>
         ELSE \/ /\ balance' = Wallet_withdrawBalance(balance, amount)
                 /\ txns' = Wallet_withdrawTxns(txns, amount)
                 /\ req' = [req EXCEPT ![p].pc = "pay_save"]
              \/ /\ Respond(p, DatabaseError)
                 /\ UNCHANGED <<balance, txns>>
    /\ UNCHANGED <<orders, payments, last, nreq, initBalance, cartVars, waitVars>>

\* OrderViewSet.pay: order.payment_status = "paid"; order.save()
OrderViewSet_pay_save(p) ==
    /\ req[p].pc = "pay_save"
    /\ \/ /\ orders' = [orders EXCEPT ![req[p].o] =
                           [req[p].order EXCEPT !.payment_status = "paid"]]
          /\ Respond(p, "ok")
       \/ /\ Respond(p, DatabaseError)
          /\ UNCHANGED orders
    /\ UNCHANGED <<balance, txns, payments, last, nreq, initBalance, cartVars, waitVars>>

\* OrderViewSet.cancel: get_object() and the status check
OrderViewSet_cancel_load(p) ==
    /\ req[p].pc = "oc_load"
    /\ LET order == orders[req[p].o] IN
         IF OrderViewSet_cancel_refused(order)
         THEN req' = [req EXCEPT ![p].pc = "done", ![p].resp = "InvalidTransition",
                                 ![p].order = order]
         ELSE req' = [req EXCEPT ![p].pc = "oc_save", ![p].order = order]
    /\ UNCHANGED <<balance, txns, orders, payments, last, nreq, initBalance, cartVars, waitVars>>

\* OrderViewSet.cancel: order.status = "cancelled"; order.save()
OrderViewSet_cancel_save(p) ==
    /\ req[p].pc = "oc_save"
    /\ LET saved == [req[p].order EXCEPT !.status = "cancelled"] IN
         \/ /\ orders' = [orders EXCEPT ![req[p].o] = saved]
            /\ IF OrderViewSet_cancel_refunds(saved)
               THEN req' = [req EXCEPT ![p].pc = "oc_refund", ![p].order = saved]
               ELSE req' = [req EXCEPT ![p].pc = "done", ![p].resp = "ok",
                                       ![p].order = saved]
         \/ /\ Respond(p, DatabaseError)
            /\ UNCHANGED orders
    /\ UNCHANGED <<balance, txns, payments, last, nreq, initBalance, cartVars, waitVars>>

\* OrderViewSet.cancel: wallet.deposit(order.total_amount) of a paid order
OrderViewSet_cancel_refund(p) ==
    /\ req[p].pc = "oc_refund"
    /\ LET amount == req[p].order.total_amount IN
         \/ /\ balance' = Wallet_depositBalance(balance, amount)
            /\ txns' = Wallet_depositTxns(txns, amount)
            /\ Respond(p, "ok")
         \/ /\ Respond(p, DatabaseError)
            /\ UNCHANGED <<balance, txns>>
    /\ UNCHANGED <<orders, payments, last, nreq, initBalance, cartVars, waitVars>>

\* ------------------------------------------------------- PaymentViewSet
\* Payment.objects.create(order=..., amount=..., payment_method=..., status=...)
Payment_create(order, method, status) ==
    [exists |-> TRUE, amount |-> order.total_amount, payment_method |-> method, status |-> status]

\* PaymentViewSet.process_payment: order.payment_status == "paid"
PaymentViewSet_process_payment_alreadyPaid(order) == order.payment_status = "paid"

\* PaymentViewSet.process_payment: wallet.balance < order.total_amount
PaymentViewSet_process_payment_insufficient(bal, order) == bal < order.total_amount

\* PaymentViewSet.refund: payment.status != "completed"
\* (variant: a refunded payment is let through as well)
PaymentViewSet_refund_refused_refundedPasses(payment) ==
    payment.status \notin {"completed", "refunded"}
PaymentViewSet_refund_refused(payment) == payment.status # "completed"

\* PaymentViewSet.refund: order = payment.order; order.payment_status =
\* "refunded"; order.save()
\* (variant: the order is left as it is)
PaymentViewSet_refund_order_notSaved(order) == order
PaymentViewSet_refund_order(order) == [order EXCEPT !.payment_status = "refunded"]

\* PaymentViewSet.cancel: payment.status not in ["pending"]
\* (variant: a completed payment can be cancelled as well)
PaymentViewSet_cancel_refused_completedToo(payment) ==
    payment.status \notin {"pending", "completed"}
PaymentViewSet_cancel_refused(payment) == payment.status \notin {"pending"}

\* PaymentViewSet.process_payment: Order.objects.get and the already-paid check
PaymentViewSet_process_payment_load(p) ==
    /\ req[p].pc = "pp_load"
    /\ IF req[p].o \notin Orders
       THEN Respond(p, "NotFound")
       ELSE LET order == orders[req[p].o] IN
         IF PaymentViewSet_process_payment_alreadyPaid(order)
         THEN req' = [req EXCEPT ![p].pc = "done", ![p].resp = "AlreadyPaid",
                                 ![p].order = order]
         ELSE req' = [req EXCEPT ![p].pc = "pp_method", ![p].order = order]
    /\ UNCHANGED <<balance, txns, orders, payments, last, nreq, initBalance, cartVars, waitVars>>

\* PaymentViewSet.process_payment: the dispatch on payment_method inside
\* transaction.atomic(); the wallet branch up to its balance check, the
\* other branches to their end
PaymentViewSet_process_payment_method(p) ==
    /\ req[p].pc = "pp_method"
    /\ LET o == req[p].o
           m == req[p].method IN
         IF m = "wallet"
         THEN /\ IF PaymentViewSet_process_payment_insufficient(balance, req[p].order)
                 THEN req' = [req EXCEPT ![p].pc = "done", ![p].resp = "InsufficientFunds",
                                         ![p].wbal = balance]
                 ELSE req' = [req EXCEPT ![p].pc = "pp_wallet", ![p].wbal = balance]
              /\ UNCHANGED payments
         ELSE IF m \in {"credit_card", "bank_transfer"}
         THEN IF payments[o].exists
              THEN /\ Respond(p, IntegrityError)
                   /\ UNCHANGED payments
              ELSE \/ /\ payments' = [payments EXCEPT ![o] =
                                         Payment_create(req[p].order, m, "pending")]
                      /\ Respond(p, "NotImplemented")
                   \/ /\ Respond(p, DatabaseError)
                      /\ UNCHANGED payments
         ELSE /\ Respond(p, "Unsupported")
              /\ UNCHANGED payments
    /\ UNCHANGED <<balance, txns, orders, last, nreq, initBalance, cartVars, waitVars>>

\* PaymentViewSet.process_payment: the writes of the wallet branch, which
\* transaction.atomic() commits together or not at all
PaymentViewSet_process_payment_wallet(p) ==
    /\ req[p].pc = "pp_wallet"
    /\ LET o == req[p].o
           amount == req[p].order.total_amount IN
         IF payments[o].exists
         THEN /\ Respond(p, IntegrityError)
              /\ UNCHANGED <<balance, txns, orders, payments>>
         ELSE IF ~Wallet_canWithdraw(balance, amount)
         THEN /\ Respond(p, InsufficientFundsError)
              /\ UNCHANGED <<balance, txns, orders, payments>>
         ELSE \/ /\ payments' = [payments EXCEPT ![o] =
                                    Payment_create(req[p].order, "wallet", "completed")]
                 /\ balance' = Wallet_withdrawBalance(balance, amount)
                 /\ txns' = Transaction_create(Wallet_withdrawTxns(txns, amount),
                                               "purchase", amount, o)
                 /\ orders' = [orders EXCEPT ![o] =
                                  [req[p].order EXCEPT !.payment_status = "paid"]]
                 /\ Respond(p, "ok")
              \/ /\ Respond(p, DatabaseError)
                 /\ UNCHANGED <<balance, txns, orders, payments>>
    /\ UNCHANGED <<last, nreq, initBalance, cartVars, waitVars>>

\* PaymentViewSet.refund: get_object() and the status check
PaymentViewSet_refund_load(p) ==
    /\ req[p].pc = "rf_load"
    /\ LET payment == payments[req[p].o] IN
         IF ~payment.exists
         THEN Respond(p, "NotFound")
         ELSE IF PaymentViewSet_refund_refused(payment)
         THEN req' = [req EXCEPT ![p].pc = "done", ![p].resp = "InvalidTransition",
                                 ![p].payment = payment]
         ELSE req' = [req EXCEPT ![p].pc = "rf_atomic", ![p].payment = payment]
    /\ UNCHANGED <<balance, txns, orders, payments, last, nreq, initBalance, cartVars, waitVars>>

\* PaymentViewSet.refund: the writes inside transaction.atomic()
PaymentViewSet_refund_atomic(p) ==
    /\ req[p].pc = "rf_atomic"
    /\ LET o == req[p].o
           payment == req[p].payment
           refunded == [payment EXCEPT !.status = "refunded"]
           order == PaymentViewSet_refund_order(orders[o]) IN
         \/ /\ payment.payment_method = "wallet"
            /\ balance' = Wallet_depositBalance(balance, payment.amount)
            /\ txns' = Transaction_create(Wallet_depositTxns(txns, payment.amount),
                                          "refund", payment.amount, o)
            /\ payments' = [payments EXCEPT ![o] = refunded]
            /\ orders' = [orders EXCEPT ![o] = order]
            /\ Respond(p, "ok")
         \/ /\ payment.payment_method \in {"credit_card", "bank_transfer"}
            /\ payments' = [payments EXCEPT ![o] = refunded]
            /\ orders' = [orders EXCEPT ![o] = order]
            /\ Respond(p, "NotImplemented")
            /\ UNCHANGED <<balance, txns>>
         \/ /\ Respond(p, DatabaseError)
            /\ UNCHANGED <<balance, txns, orders, payments>>
    /\ UNCHANGED <<last, nreq, initBalance, cartVars, waitVars>>

\* PaymentViewSet.cancel: get_object() and the status check
PaymentViewSet_cancel_load(p) ==
    /\ req[p].pc = "pcn_load"
    /\ LET payment == payments[req[p].o] IN
         IF ~payment.exists
         THEN Respond(p, "NotFound")
         ELSE IF PaymentViewSet_cancel_refused(payment)
         THEN req' = [req EXCEPT ![p].pc = "done", ![p].resp = "InvalidTransition",
                                 ![p].payment = payment]
         ELSE req' = [req EXCEPT ![p].pc = "pcn_payment", ![p].payment = payment]
    /\ UNCHANGED <<balance, txns, orders, payments, last, nreq, initBalance, cartVars, waitVars>>

\* PaymentViewSet.cancel: payment.status = "failed"; payment.save()
PaymentViewSet_cancel_payment(p) ==
    /\ req[p].pc = "pcn_payment"
    /\ \/ /\ payments' = [payments EXCEPT ![req[p].o] =
                             [req[p].payment EXCEPT !.status = "failed"]]
          /\ req' = [req EXCEPT ![p].pc = "pcn_order"]
       \/ /\ Respond(p, DatabaseError)
          /\ UNCHANGED payments
    /\ UNCHANGED <<balance, txns, orders, last, nreq, initBalance, cartVars, waitVars>>

\* PaymentViewSet.cancel: order = payment.order; order.payment_status =
\* "failed"; order.save()
PaymentViewSet_cancel_order(p) ==
    /\ req[p].pc = "pcn_order"
    /\ \/ /\ orders' = [orders EXCEPT ![req[p].o] =
                           [orders[req[p].o] EXCEPT !.payment_status = "failed"]]
          /\ Respond(p, "ok")
       \/ /\ Respond(p, DatabaseError)
          /\ UNCHANGED orders
    /\ UNCHANGED <<balance, txns, payments, last, nreq, initBalance, cartVars, waitVars>>

\* ------------------------------------------------------------------ Next
Step(p) ==
    \/ WalletViewSet_deposit(p)
    \/ WalletViewSet_withdraw(p)
    \/ WalletDepositView_post(p)
    \/ WalletWithdrawView_check(p)
    \/ WalletWithdrawView_withdraw(p)
    \/ OrderViewSet_pay_load(p)
    \/ OrderViewSet_pay_check(p)
    \/ OrderViewSet_pay_withdraw(p)
    \/ OrderViewSet_pay_save(p)
    \/ OrderViewSet_cancel_load(p)
    \/ OrderViewSet_cancel_save(p)
    \/ OrderViewSet_cancel_refund(p)
    \/ PaymentViewSet_process_payment_load(p)
    \/ PaymentViewSet_process_payment_method(p)
    \/ PaymentViewSet_process_payment_wallet(p)
    \/ PaymentViewSet_refund_load(p)
    \/ PaymentViewSet_refund_atomic(p)
    \/ PaymentViewSet_cancel_load(p)
    \/ PaymentViewSet_cancel_payment(p)
    \/ PaymentViewSet_cancel_order(p)
    \/ Return(p)

AllIdle == \A p \in Procs : ~Active(p)

\* one request at a time
BeginSeq(p) == AllIdle /\ Begin(p, TRUE) /\ UNCHANGED nreq

\* requests overlap; at most MaxConcReqs of them are accepted
BeginConc(p) == nreq < MaxConcReqs /\ Begin(p, FALSE) /\ nreq' = nreq + 1

Next == \E p \in Procs : BeginSeq(p) \/ Step(p)

NextConc == \E p \in Procs : BeginConc(p) \/ Step(p)

\* the wallet endpoints alone, one request at a time
BeginWallet(p) ==
    /\ AllIdle
    /\ \E op \in WalletOps, a \in 0..MaxAmount : Arrive(p, op, NoOrder, a, "none", TRUE)
    /\ UNCHANGED nreq

StepWallet(p) ==
    \/ WalletViewSet_deposit(p)
    \/ WalletViewSet_withdraw(p)
    \/ WalletDepositView_post(p)
    \/ WalletWithdrawView_check(p)
    \/ WalletWithdrawView_withdraw(p)
    \/ ReturnWallet(p)

NextWallet == \E p \in Procs : BeginWallet(p) \/ StepWallet(p)

\* a wallet with some balance and an empty ledger; the orders play no part
InitWallet ==
    /\ balance \in 0..MaxBalance
    /\ initBalance = balance
    /\ txns = EmptyBag
    /\ orders = [o \in Orders |-> [status |-> "pending", payment_status |-> "pending",
                                   total_amount |-> 1]]
    /\ payments = [o \in Orders |-> NoPayment]
    /\ req = [p \in Procs |-> Idle]
    /\ last = NoLast
    /\ nreq = 0
    /\ cart = NoItems
    /\ price = [pr \in Products |-> 1]
    /\ placed = <<>>
    /\ creq = [p \in Procs |-> CartIdle]
    /\ WaitOff

\* the order and payment endpoints alone, one request at a time: the wallet
\* changes only through pay, cancel and refund
BeginOrders(p) ==
    /\ AllIdle
    /\ \/ \E op \in OrderOps, o \in Orders : Arrive(p, op, o, 0, "none", TRUE)
       \/ \E o \in Orders \cup {NoOrder}, m \in RequestMethods :
             Arrive(p, "process_payment", o, 0, m, TRUE)
    /\ UNCHANGED nreq

StepOrders(p) ==
    \/ OrderViewSet_pay_load(p)
    \/ OrderViewSet_pay_check(p)
    \/ OrderViewSet_pay_withdraw(p)
    \/ OrderViewSet_pay_save(p)
    \/ OrderViewSet_cancel_load(p)
    \/ OrderViewSet_cancel_save(p)
    \/ OrderViewSet_cancel_refund(p)
    \/ PaymentViewSet_process_payment_load(p)
    \/ PaymentViewSet_process_payment_method(p)
    \/ PaymentViewSet_process_payment_wallet(p)
    \/ PaymentViewSet_refund_load(p)
    \/ PaymentViewSet_refund_atomic(p)
    \/ PaymentViewSet_cancel_load(p)
    \/ PaymentViewSet_cancel_payment(p)
    \/ PaymentViewSet_cancel_order(p)
    \/ Return(p)

NextOrders == \E p \in Procs : BeginOrders(p) \/ StepOrders(p)

Spec == Init /\ [][Next]_vars
SpecOrders == Init /\ [][NextOrders]_vars
SpecWallet == InitWallet /\ [][NextWallet]_vars
SpecConc == Init /\ [][NextConc]_vars

\* ===================================================================
\* Cart and checkout
\* ===================================================================
CartActive(p) == creq[p].pc # "idle"
CartDone(p) == creq[p].pc = "done"

RespondCart(p, r) == creq' = [creq EXCEPT ![p].pc = "done", ![p].resp = r]

NotFoundError == "exc:NotFound"
InvalidQuantityError == "exc:InvalidQuantity"

\* cart.items: the products that have a CartItem row
CartLines(c) == {pr \in Products : c[pr] > 0}

\* core.models.Cart declares none of the methods the views call on it.  They
\* are taken from the specification (4.2): one line per product, whose
\* quantities add up; total() is the sum of quantity times the product's
\* present price; clear() deletes every line.
RECURSIVE Cart_sum(_, _, _)
Cart_sum(c, pri, S) ==
    IF S = {} THEN 0
    ELSE LET pr == CHOOSE x \in S : TRUE
         IN  c[pr] * pri[pr] + Cart_sum(c, pri, S \ {pr})
Cart_get_total(c, pri) == Cart_sum(c, pri, CartLines(c))
Cart_clear(c) == NoItems
Cart_add_item(c, product, quantity) == [c EXCEPT ![product] = @ + quantity]
Cart_remove_item(c, item) == [c EXCEPT ![item] = 0]
Cart_update_item_quantity(c, item, quantity) == [c EXCEPT ![item] = quantity]

\* Order.objects.create(total_amount=...): status and payment_status take
\* their defaults; the order has no OrderItem rows yet
Order_create(total) ==
    [total_amount |-> total, status |-> "pending", payment_status |-> "pending",
     items |-> {}]

\* OrderItem.objects.create(order, product, quantity, price)
OrderItem_create(product, quantity, pri) ==
    [product |-> product, quantity |-> quantity, price |-> pri]

CartFirstPc(op) ==
    CASE op = "add_item" -> "ca_add"
      [] op = "remove_item" -> "ca_remove"
      [] op = "update_quantity" -> "ca_update"
      [] op = "clear" -> "ca_clear"
      [] op = "create_from_cart" -> "cfc_check"

\* the checkouts under way that have not created their Order yet
CheckoutsAhead ==
    Cardinality({q \in Procs : creq[q].pc \in {"cfc_check", "cfc_order"}})

\* A cart or checkout request arrives in slot p; with observe it remembers
\* the cart and the orders as it found them.  Requests that could exceed
\* the bounds are refused.
ArriveCart(p, op, product, quantity, observe) ==
    /\ ~CartActive(p)
    /\ p = 2 => CartActive(1)
    /\ (op = "add_item" /\ product \in Products)
          => cart[product] + quantity <= MaxQuantity
    /\ op = "create_from_cart" => Len(placed) + CheckoutsAhead < MaxPlaced
    /\ creq' = [creq EXCEPT ![p] = [CartIdle EXCEPT !.pc = CartFirstPc(op), !.op = op,
                                                   !.product = product,
                                                   !.quantity = quantity,
                                                   !.pre = IF observe
                                                           THEN [cart |-> cart,
                                                                 placed |-> placed]
                                                           ELSE NoCartPre]]
    /\ UNCHANGED <<cart, price, placed, balance, txns, orders, payments, req, last,
                   initBalance, waitVars>>

BeginCart(p, observe) ==
    \/ \E op \in {"add_item", "update_quantity"},
          pr \in Products \cup {NoProduct}, q \in 0..MaxQuantity :
          ArriveCart(p, op, pr, q, observe)
    \/ \E pr \in Products \cup {NoProduct} : ArriveCart(p, "remove_item", pr, 0, observe)
    \/ \E op \in {"clear", "create_from_cart"} : ArriveCart(p, op, NoProduct, 0, observe)

ReturnCart(p) ==
    /\ CartDone(p)
    /\ creq' = [creq EXCEPT ![p] = CartIdle]
    /\ UNCHANGED <<cart, price, placed, settleVars, waitVars>>

\* CartViewSet.add_item
CartViewSet_add_item(p) ==
    /\ creq[p].pc = "ca_add"
    /\ IF creq[p].product = NoProduct
       THEN RespondCart(p, "ProductRequired") /\ UNCHANGED cart
       ELSE IF creq[p].quantity < 1
       THEN RespondCart(p, InvalidQuantityError) /\ UNCHANGED cart
       ELSE \/ /\ cart' = Cart_add_item(cart, creq[p].product, creq[p].quantity)
               /\ RespondCart(p, "ok")
            \/ RespondCart(p, DatabaseError) /\ UNCHANGED cart
    /\ UNCHANGED <<price, placed, settleVars, waitVars>>

\* CartViewSet.remove_item
CartViewSet_remove_item(p) ==
    /\ creq[p].pc = "ca_remove"
    /\ IF creq[p].product = NoProduct
       THEN RespondCart(p, "ItemRequired") /\ UNCHANGED cart
       ELSE IF creq[p].product \notin CartLines(cart)
       THEN RespondCart(p, NotFoundError) /\ UNCHANGED cart
       ELSE \/ /\ cart' = Cart_remove_item(cart, creq[p].product)
               /\ RespondCart(p, "ok")
            \/ RespondCart(p, DatabaseError) /\ UNCHANGED cart
    /\ UNCHANGED <<price, placed, settleVars, waitVars>>

\* CartViewSet.update_quantity
CartViewSet_update_quantity(p) ==
    /\ creq[p].pc = "ca_update"
    /\ IF creq[p].product = NoProduct \/ creq[p].quantity = 0
       THEN RespondCart(p, "ItemAndQuantityRequired") /\ UNCHANGED cart
       ELSE IF creq[p].product \notin CartLines(cart)
       THEN RespondCart(p, NotFoundError) /\ UNCHANGED cart
       ELSE \/ /\ cart' = Cart_update_item_quantity(cart, creq[p].product,
                                                    creq[p].quantity)
               /\ RespondCart(p, "ok")
            \/ RespondCart(p, DatabaseError) /\ UNCHANGED cart
    /\ UNCHANGED <<price, placed, settleVars, waitVars>>

\* CartViewSet.clear (the view has no try: a failure of the store is the
\* framework's 500 answer)
CartViewSet_clear(p) ==
    /\ creq[p].pc = "ca_clear"
    /\ \/ /\ cart' = Cart_clear(cart)
          /\ RespondCart(p, "ok")
       \/ RespondCart(p, DatabaseError) /\ UNCHANGED cart
    /\ UNCHANGED <<price, placed, settleVars, waitVars>>

\* OrderViewSet.create_from_cart: not cart.items.exists()
\* (variant: no cart counts as empty)
OrderViewSet_create_from_cart_empty_never(c) == FALSE
OrderViewSet_create_from_cart_empty(c) == CartLines(c) = {}

\* OrderViewSet.create_from_cart: for cart_item in cart.items.all()
\* (variant: only the line of the first product is copied)
OrderViewSet_create_from_cart_lines_firstOnly(c) ==
    {[product |-> pr, quantity |-> c[pr]] :
        pr \in {x \in CartLines(c) : \A y \in CartLines(c) : x <= y}}
OrderViewSet_create_from_cart_lines(c) ==
    {[product |-> pr, quantity |-> c[pr]] : pr \in CartLines(c)}

\* OrderViewSet.create_from_cart, the empty-cart check
OrderViewSet_create_from_cart_check(p) ==
    /\ creq[p].pc = "cfc_check"
    /\ IF OrderViewSet_create_from_cart_empty(cart)
       THEN RespondCart(p, "EmptyCart")
       ELSE creq' = [creq EXCEPT ![p].pc = "cfc_order"]
    /\ UNCHANGED <<cart, price, placed, settleVars, waitVars>>

\* OrderViewSet.create_from_cart: Order.objects.create with the cart total
OrderViewSet_create_from_cart_order(p) ==
    /\ creq[p].pc = "cfc_order"
    /\ \/ /\ placed' = Append(placed, Order_create(Cart_get_total(cart, price)))
          /\ creq' = [creq EXCEPT ![p].pc = "cfc_items", ![p].oid = Len(placed) + 1]
       \/ /\ RespondCart(p, DatabaseError)
          /\ UNCHANGED placed
    /\ UNCHANGED <<cart, price, settleVars, waitVars>>

\* OrderViewSet.create_from_cart: the loop reads the cart's lines
OrderViewSet_create_from_cart_items(p) ==
    /\ creq[p].pc = "cfc_items"
    /\ creq' = [creq EXCEPT ![p].pc = "cfc_item",
                            ![p].todo = OrderViewSet_create_from_cart_lines(cart)]
    /\ UNCHANGED <<cart, price, placed, settleVars, waitVars>>

\* OrderViewSet.create_from_cart: one turn of the loop creates the OrderItem
\* of one line, at the product's present price; after the last line the
\* view goes on to clear the cart
OrderViewSet_create_from_cart_item(p) ==
    /\ creq[p].pc = "cfc_item"
    /\ IF creq[p].todo = {}
       THEN /\ creq' = [creq EXCEPT ![p].pc = "cfc_clear"]
            /\ UNCHANGED placed
       ELSE \E ln \in creq[p].todo :
              \/ /\ placed' = [placed EXCEPT ![creq[p].oid].items =
                                  @ \cup {OrderItem_create(ln.product, ln.quantity,
                                                           price[ln.product])}]
                 /\ creq' = [creq EXCEPT ![p].todo = @ \ {ln}]
              \/ /\ RespondCart(p, DatabaseError)
                 /\ UNCHANGED placed
    /\ UNCHANGED <<cart, price, settleVars, waitVars>>

\* OrderViewSet.create_from_cart: cart.clear() and the 201 answer
OrderViewSet_create_from_cart_clear(p) ==
    /\ creq[p].pc = "cfc_clear"
    /\ \/ /\ cart' = Cart_clear(cart)
          /\ RespondCart(p, "ok")
       \/ /\ RespondCart(p, DatabaseError)
          /\ UNCHANGED cart
    /\ UNCHANGED <<price, placed, settleVars, waitVars>>

StepCart(p) ==
    \/ CartViewSet_add_item(p)
    \/ CartViewSet_remove_item(p)
    \/ CartViewSet_update_quantity(p)
    \/ CartViewSet_clear(p)
    \/ OrderViewSet_create_from_cart_check(p)
    \/ OrderViewSet_create_from_cart_order(p)
    \/ OrderViewSet_create_from_cart_items(p)
    \/ OrderViewSet_create_from_cart_item(p)
    \/ OrderViewSet_create_from_cart_clear(p)
    \/ ReturnCart(p)

AllCartIdle == \A p \in Procs : ~CartActive(p)

\* one cart or checkout request at a time
BeginCartSeq(p) == AllCartIdle /\ BeginCart(p, TRUE) /\ UNCHANGED nreq

NextCart == \E p \in Procs : BeginCartSeq(p) \/ StepCart(p)

\* cart and checkout requests overlap; at most MaxConcReqs of them are
\* accepted
BeginCartConc(p) == nreq < MaxConcReqs /\ BeginCart(p, FALSE) /\ nreq' = nreq + 1

\* ProductViewSet.update / partial_update (and ProductAdmin): the catalog
\* gives a product another price
ProductViewSet_update(product, newPrice) ==
    /\ newPrice # price[product]
    /\ price' = [price EXCEPT ![product] = newPrice]
    /\ UNCHANGED <<cart, placed, creq, settleVars, waitVars>>

NextCartConc ==
    \/ \E p \in Procs : BeginCartConc(p) \/ StepCart(p)
    \/ \E pr \in Products, np \in 1..MaxPrice : ProductViewSet_update(pr, np)

\* a new user: an empty cart, no order yet, a catalog with some prices; the
\* settlement endpoints are not called
InitCart ==
    /\ balance = 0
    /\ initBalance = 0
    /\ txns = EmptyBag
    /\ orders = [o \in Orders |-> [status |-> "pending", payment_status |-> "pending",
                                   total_amount |-> 1]]
    /\ payments = [o \in Orders |-> NoPayment]
    /\ req = [p \in Procs |-> Idle]
    /\ last = NoLast
    /\ nreq = 0
    /\ cart = NoItems
    /\ price \in [Products -> 1..MaxPrice]
    /\ placed = <<>>
    /\ creq = [p \in Procs |-> CartIdle]
    /\ WaitOff

SpecCart == InitCart /\ [][NextCart]_vars
SpecCartConc == InitCart /\ [][NextCartConc]_vars

\* ===================================================================
\* wait_for_db
\* ===================================================================
Psycopg2OpError == "Psycopg2OpError"
OperationalError == "OperationalError"

\* the exceptions a check of an unavailable database raises
CheckErrors == {Psycopg2OpError, OperationalError}

\* Command.handle: except (Psycopg2OpError, OperationalError)
Command_handle_caught(e) == e \in {Psycopg2OpError, OperationalError}

\* Command.handle: for alias in settings.DATABASES.keys(), the next turn
\* (variant: every second alias)
Command_handle_next_skips(i) == i + 2
Command_handle_next(i) == i + 1

\* Command.handle: while not up
\* (variant: the check is not repeated)
Command_handle_retry_never(u) == FALSE
Command_handle_retry(u) == ~u

\* Command.handle: the for loop takes the next alias, or the command ends
Command_handle_for ==
    /\ wpc = "for"
    /\ IF walias <= Len(DATABASES)
       THEN wpc' = "while" /\ up' = FALSE
       ELSE wpc' = "done" /\ UNCHANGED up
    /\ UNCHANGED <<walias, wfails, wfails0, wchecks, wdone, settleVars, cartVars>>

\* Command.handle: the test of the while loop
Command_handle_while ==
    /\ wpc = "while"
    /\ wpc' = IF Command_handle_retry(up) THEN "check" ELSE "available"
    /\ UNCHANGED <<walias, up, wfails, wfails0, wchecks, wdone, settleVars, cartVars>>

\* Command.handle: self.check(databases=[alias]); up = True, or the
\* exception of an unavailable database, which is caught or ends the command
Command_handle_check ==
    /\ wpc = "check"
    /\ LET a == DATABASES[walias] IN
         /\ wchecks' = [wchecks EXCEPT ![a] = @ + 1]
         /\ IF wfails[a] = 0
            THEN /\ up' = TRUE
                 /\ wpc' = "while"
                 /\ UNCHANGED wfails
            ELSE /\ wfails' = [wfails EXCEPT ![a] = @ - 1]
                 /\ \E e \in CheckErrors :
                       wpc' = IF Command_handle_caught(e) THEN "sleep" ELSE "raised"
                 /\ UNCHANGED up
    /\ UNCHANGED <<walias, wfails0, wdone, settleVars, cartVars>>

\* Command.handle: time.sleep(1) after a failed check
Command_handle_sleep ==
    /\ wpc = "sleep"
    /\ wpc' = "while"
    /\ UNCHANGED <<walias, up, wfails, wfails0, wchecks, wdone, settleVars, cartVars>>

\* Command.handle: the alias is reported available
Command_handle_available ==
    /\ wpc = "available"
    /\ wdone' = wdone \cup {DATABASES[walias]}
    /\ walias' = Command_handle_next(walias)
    /\ wpc' = "for"
    /\ UNCHANGED <<up, wfails, wfails0, wchecks, settleVars, cartVars>>

NextWait ==
    \/ Command_handle_for
    \/ Command_handle_while
    \/ Command_handle_check
    \/ Command_handle_sleep
    \/ Command_handle_available

\* the command starts; the check of each database is going to fail some
\* number of times before the database is available
InitWait ==
    /\ balance = 0
    /\ initBalance = 0
    /\ txns = EmptyBag
    /\ orders = [o \in Orders |-> [status |-> "pending", payment_status |-> "pending",
                                   total_amount |-> 1]]
    /\ payments = [o \in Orders |-> NoPayment]
    /\ req = [p \in Procs |-> Idle]
    /\ last = NoLast
    /\ nreq = 0
    /\ cart = NoItems
    /\ price = [pr \in Products |-> 1]
    /\ placed = <<>>
    /\ creq = [p \in Procs |-> CartIdle]
    /\ wpc = "for"
    /\ walias = 1
    /\ up = FALSE
    /\ wfails \in [Aliases -> 0..MaxFails]
    /\ wfails0 = wfails
    /\ wchecks = [a \in Aliases |-> 0]
    /\ wdone = {}

SpecWait == InitWait /\ [][NextWait]_vars

\* the command is one sequential process that runs as long as it has a
\* next statement
SpecWaitLive == InitWait /\ [][NextWait]_vars /\ WF_vars(NextWait)

TypeOK ==
    /\ balance \in Int
    /\ BagCardinality(txns) <= MaxTxns

\* ===================================================================
\* Properties
\* ===================================================================
Done(p) == req[p].pc = "done"

\* the Transaction rows created since request p arrived
NewTxns(p) == txns (-) req[p].pre.txns

\* how many rows of bag b have this transaction_type
CountType(b, type) ==
    BagCardinality([t \in {x \in DOMAIN b : x.transaction_type = type} |-> b[t]])

\* p asks to pay an existing order from the wallet
IsWalletPay(p) ==
    \/ req[p].op = "order_pay"
    \/ req[p].op = "process_payment" /\ req[p].method = "wallet" /\ req[p].o \in Orders

\* C1: pay is all-or-nothing.  When a wallet pay request (order.pay or
\* payment.process_payment) has ended with total_amount withdrawn from the
\* wallet, the order's payment_status is "paid".
C1_PayAllOrNothing ==
    \A p \in Procs :
        (/\ Done(p)
         /\ IsWalletPay(p)
         /\ balance = req[p].pre.balance - req[p].pre.order.total_amount)
        => orders[req[p].o].payment_status = "paid"

\* C2: the balance is never negative, and a withdraw (through either wallet
\* endpoint) of more than the balance fails and leaves the balance and the
\* ledger as they were.
C2_BalanceNonNegative ==
    /\ balance >= 0
    /\ \A p \in Procs :
        (/\ Done(p)
         /\ req[p].op \in {"wallet_withdraw", "withdraw_view"}
         /\ req[p].amt > req[p].pre.balance)
        => /\ req[p].resp \in {"InsufficientFunds", InsufficientFundsError}
           /\ balance = req[p].pre.balance
           /\ txns = req[p].pre.txns

C2_Witness ==
    \E p \in Procs :
        /\ Done(p)
        /\ req[p].op = "wallet_withdraw"
        /\ txns # EmptyBag
        /\ req[p].amt > req[p].pre.balance
        /\ req[p].resp = InsufficientFundsError

C4_SecondPayAlreadyPaid ==
    \A p \in Procs :
        (/\ Done(p)
         /\ req[p].op \in PayOps
         /\ req[p].prev.op \in PayOps
         /\ req[p].prev.o = req[p].o)
        => /\ req[p].resp = "AlreadyPaid"
           /\ balance = req[p].pre.balance
           /\ txns = req[p].pre.txns
           /\ balance = req[p].prev.bal0 - orders[req[p].o].total_amount

C4_Witness ==
    \E p \in Procs :
        /\ Done(p)
        /\ req[p].op = "order_pay"
        /\ req[p].prev.op = "process_payment"
        /\ req[p].prev.o = req[p].o
        /\ req[p].resp = "AlreadyPaid"

\* C5: a wallet pay of an unpaid order with balance < total_amount is
\* answered InsufficientFunds and changes nothing: balance, ledger, Payment
\* row and order are as before.
C5_InsufficientFundsNoEffect ==
    \A p \in Procs :
        (/\ Done(p)
         /\ IsWalletPay(p)
         /\ req[p].pre.order.payment_status # "paid"
         /\ req[p].pre.balance < req[p].pre.order.total_amount)
        => /\ req[p].resp = "InsufficientFunds"
           /\ balance = req[p].pre.balance
           /\ txns = req[p].pre.txns
           /\ payments[req[p].o] = req[p].pre.payment
           /\ orders[req[p].o] = req[p].pre.order

C5_Witness ==
    \E p \in Procs :
        /\ Done(p)
        /\ req[p].op = "order_pay"
        /\ req[p].pre.order.payment_status = "pending"
        /\ req[p].pre.balance < req[p].pre.order.total_amount
        /\ req[p].resp = "InsufficientFunds"
        /\ orders[req[p].o].payment_status = "pending"

\* C6: a successful wallet pay of an order with total T leaves balance
\* B - T, exactly one new purchase Transaction, of amount T and linked to
\* the order, a Payment with status "completed", and payment_status "paid".
C6_SuccessfulPay ==
    \A p \in Procs :
        (Done(p) /\ IsWalletPay(p) /\ req[p].resp = "ok")
        => LET o == req[p].o
               T == req[p].pre.order.total_amount
           IN  /\ balance = req[p].pre.balance - T
               /\ CopiesIn(Txn("purchase", T, o), NewTxns(p)) = 1
               /\ CountType(NewTxns(p), "purchase") = 1
               /\ payments[o].exists
               /\ payments[o].status = "completed"
               /\ orders[o].payment_status = "paid"

\* C7: a successful refund that directly follows the process_payment that
\* created the payment restores the balance from before that pay, creates
\* exactly one refund Transaction, of the payment amount and linked to the
\* order, and leaves Payment.status and Order.payment_status "refunded".
C7_RefundRestores ==
    \A p \in Procs :
        (/\ Done(p)
         /\ req[p].op = "refund"
         /\ req[p].resp = "ok"
         /\ req[p].prev.op = "process_payment"
         /\ req[p].prev.o = req[p].o)
        => LET o == req[p].o IN
               /\ balance = req[p].prev.bal0
               /\ CopiesIn(Txn("refund", req[p].pre.payment.amount, o), NewTxns(p)) = 1
               /\ CountType(NewTxns(p), "refund") = 1
               /\ payments[o].status = "refunded"
               /\ orders[o].payment_status = "refunded"

C7_Witness ==
    \E p \in Procs :
        /\ Done(p)
        /\ req[p].op = "refund"
        /\ req[p].resp = "ok"
        /\ req[p].prev.op = "process_payment"
        /\ req[p].prev.o = req[p].o
        /\ balance = req[p].prev.bal0
        /\ balance > req[p].pre.balance

\* C8: a successful cancel of a paid order in status pending or processing
\* leaves status "cancelled", the balance raised by exactly total_amount,
\* and one new Transaction, the deposit of total_amount.
C8_CancelPaidRefunds ==
    \A p \in Procs :
        (/\ Done(p)
         /\ req[p].op = "order_cancel"
         /\ req[p].resp = "ok"
         /\ req[p].pre.order.status \in {"pending", "processing"}
         /\ req[p].pre.order.payment_status = "paid")
        => LET o == req[p].o
               T == req[p].pre.order.total_amount
           IN  /\ orders[o].status = "cancelled"
               /\ balance = req[p].pre.balance + T
               /\ NewTxns(p) = SetToBag({Txn("deposit", T, NoOrder)})

C8_Witness ==
    \E p \in Procs :
        /\ Done(p)
        /\ req[p].op = "order_cancel"
        /\ req[p].resp = "ok"
        /\ req[p].pre.order.status = "processing"
        /\ req[p].pre.order.payment_status = "paid"
        /\ orders[req[p].o].status = "cancelled"

\* C9: cancel of an order that is shipped, delivered or cancelled is
\* answered InvalidTransition and changes nothing: order, balance, ledger
\* and Payment row are as before.
C9_CancelRefused ==
    \A p \in Procs :
        (/\ Done(p)
         /\ req[p].op = "order_cancel"
         /\ req[p].pre.order.status \in {"shipped", "delivered", "cancelled"})
        => /\ req[p].resp = "InvalidTransition"
           /\ orders[req[p].o] = req[p].pre.order
           /\ balance = req[p].pre.balance
           /\ txns = req[p].pre.txns
           /\ payments[req[p].o] = req[p].pre.payment

C9_Witness ==
    \E p \in Procs :
        /\ Done(p)
        /\ req[p].op = "order_cancel"
        /\ req[p].pre.order.status = "delivered"
        /\ req[p].pre.order.payment_status = "paid"
        /\ req[p].resp = "InvalidTransition"

\* C10: cancel never leaves a paid order cancelled without its refund.  When
\* a cancel request of a paid order has ended with the order "cancelled",
\* total_amount has been credited to the wallet.
C10_CancelledImpliesRefunded ==
    \A p \in Procs :
        (/\ Done(p)
         /\ req[p].op = "order_cancel"
         /\ req[p].pre.order.payment_status = "paid"
         /\ req[p].pre.order.status # "cancelled"
         /\ orders[req[p].o].status = "cancelled")
        => balance = req[p].pre.balance + req[p].pre.order.total_amount

\* ---------------------------------------------------- status machines
\* the moves of Order.payment_status that the settlement protocol allows
PaymentStatusMoves ==
    {<<"pending", "paid">>, <<"paid", "refunded">>, <<"pending", "failed">>}

\* C11: an order's payment_status changes only along pending -> paid,
\* paid -> refunded and pending -> failed, in every sequence of order.pay,
\* payment.process_payment, payment.refund, payment.cancel and order.cancel.
C11_PaymentStatusTransitions ==
    [][\A o \in Orders :
          orders'[o].payment_status # orders[o].payment_status
          => <<orders[o].payment_status, orders'[o].payment_status>>
                \in PaymentStatusMoves]_vars

\* the moves of Order.status that the order life cycle allows
OrderStatusMoves ==
    {<<"pending", "processing">>, <<"processing", "shipped">>,
     <<"shipped", "delivered">>,
     <<"pending", "cancelled">>, <<"processing", "cancelled">>}

\* C12: an order's status changes only along pending -> processing ->
\* shipped -> delivered, or from pending or processing to cancelled;
\* "cancelled" and "delivered" are never left by any operation.
C12_OrderStatusTransitions ==
    [][\A o \in Orders :
          orders'[o].status # orders[o].status
          => <<orders[o].status, orders'[o].status>> \in OrderStatusMoves]_vars

\* the moves of Payment.status that the settlement protocol allows
PaymentRecordMoves ==
    {<<"pending", "completed">>, <<"completed", "refunded">>,
     <<"pending", "failed">>}

\* C13: the status of a Payment record changes only along pending ->
\* completed -> refunded or pending -> failed, in every sequence of
\* payment.process_payment, payment.refund and payment.cancel.
C13_PaymentRecordTransitions ==
    [][\A o \in Orders :
          (payments[o].exists /\ payments'[o].status # payments[o].status)
          => /\ payments'[o].exists
             /\ <<payments[o].status, payments'[o].status>>
                   \in PaymentRecordMoves]_vars

\* a cancel has moved a pending Payment to failed
C13_Witness ==
    \E p \in Procs :
        /\ Done(p)
        /\ req[p].op = "payment_cancel"
        /\ req[p].resp = "ok"
        /\ req[p].pre.payment.status = "pending"
        /\ payments[req[p].o].status = "failed"

\* C14: payment.refund on a Payment whose status is not "completed" is
\* answered InvalidTransition and leaves the wallet balance, the ledger,
\* Payment.status and Order.payment_status as they were; so a second refund
\* of the same payment credits nothing.
C14_RefundRefused ==
    \A p \in Procs :
        (/\ Done(p)
         /\ req[p].op = "refund"
         /\ req[p].pre.payment.exists
         /\ req[p].pre.payment.status # "completed")
        => /\ req[p].resp = "InvalidTransition"
           /\ balance = req[p].pre.balance
           /\ txns = req[p].pre.txns
           /\ payments[req[p].o] = req[p].pre.payment
           /\ orders[req[p].o] = req[p].pre.order

\* the refund of a payment that has been refunded before
C14_Witness ==
    \E p \in Procs :
        /\ Done(p)
        /\ req[p].op = "refund"
        /\ req[p].pre.payment.status = "refunded"
        /\ CountType(txns, "refund") = 1
        /\ req[p].resp = "InvalidTransition"

\* C15: payment.process_payment with method credit_card or bank_transfer,
\* for an unpaid order and with no failure of the store, is answered
\* NotImplemented and completes nothing: the wallet balance and the order's
\* payment_status are as before and no Payment with status "completed"
\* results.
C15_NotImplementedCompletesNothing ==
    \A p \in Procs :
        (/\ Done(p)
         /\ req[p].op = "process_payment"
         /\ req[p].method \in {"credit_card", "bank_transfer"}
         /\ req[p].o \in Orders
         /\ req[p].pre.order.payment_status # "paid"
         /\ req[p].resp # DatabaseError)
        => /\ req[p].resp = "NotImplemented"
           /\ balance = req[p].pre.balance
           /\ orders[req[p].o].payment_status = req[p].pre.order.payment_status
           /\ payments[req[p].o].status = "completed"
                 => req[p].pre.payment.status = "completed"

\* ---------------------------------------------------------------- ledger
\* C19: a successful deposit of a > 0 directly followed by a withdraw of the
\* same amount (through either wallet endpoint, the store not failing)
\* succeeds, restores the balance from before the deposit, and adds exactly
\* two Transactions to the ledger from before the deposit: one deposit and
\* one withdrawal, each of amount a.
C19_DepositThenWithdraw ==
    \A p \in Procs :
        (/\ Done(p)
         /\ req[p].op \in {"wallet_withdraw", "withdraw_view"}
         /\ req[p].prev.op \in DepositOps
         /\ req[p].amt = req[p].prev.amt
         /\ req[p].resp # DatabaseError)
        => /\ req[p].resp = "ok"
           /\ balance = req[p].prev.bal0
           /\ txns = req[p].prev.txns0
                       (+) SetToBag({Txn("deposit", req[p].amt, NoOrder)})
                       (+) SetToBag({Txn("withdrawal", req[p].amt, NoOrder)})

\* a deposit into an empty wallet, taken out again
C19_Witness ==
    \E p \in Procs :
        /\ Done(p)
        /\ req[p].op = "wallet_withdraw"
        /\ req[p].prev.op = "wallet_deposit"
        /\ req[p].amt = req[p].prev.amt
        /\ req[p].prev.bal0 = 0
        /\ req[p].resp = "ok"
        /\ balance = 0

\* the sum of amount over the rows of bag b that are in S
RECURSIVE SumAmounts(_, _)
SumAmounts(b, S) ==
    IF S = {} THEN 0
    ELSE LET t == CHOOSE x \in S : TRUE
         IN  b[t] * t.amount + SumAmounts(b, S \ {t})

\* the sum of amount over the rows of the ledger with one of these types
LedgerSum(b, types) ==
    SumAmounts(b, {t \in DOMAIN b : t.transaction_type \in types})

\* C20: every change of the wallet balance comes with exactly one
\* Transaction: in every reachable state the balance is the initial balance
\* plus the amounts of the deposit and refund Transactions minus the amounts
\* of the withdrawal and purchase Transactions.
C20_LedgerMatchesBalance ==
    balance = initBalance
                + LedgerSum(txns, {"deposit", "refund"})
                - LedgerSum(txns, {"withdrawal", "purchase"})

\* -------------------------------------------------------------- checkout
\* p is a create_from_cart request that has been answered
CheckoutDone(p) == CartDone(p) /\ creq[p].op = "create_from_cart"

\* the Order rows created since request p arrived
NewPlaced(p) == Len(placed) - Len(creq[p].pre.placed)

\* C16: create_from_cart is atomic.  When a create_from_cart request has
\* been answered, also after a failure of the store midway, an Order it
\* created has the OrderItem of every line of the cart it was created from,
\* and the cart no longer holds those lines.
C16_CreateFromCartAtomic ==
    \A p \in Procs :
        (CheckoutDone(p) /\ NewPlaced(p) > 0)
        => LET lines == CartLines(creq[p].pre.cart)
               made == placed[creq[p].oid].items
           IN  /\ \A pr \in lines : \E it \in made : it.product = pr
               /\ \A pr \in lines : cart[pr] = 0

\* C17: create_from_cart on a cart with no items is answered EmptyCart and
\* creates no Order and no OrderItem.
C17_EmptyCartRefused ==
    \A p \in Procs :
        (CheckoutDone(p) /\ CartLines(creq[p].pre.cart) = {})
        => /\ creq[p].resp = "EmptyCart"
           /\ placed = creq[p].pre.placed
           /\ cart = creq[p].pre.cart

\* the cart was emptied by an earlier checkout, which left its order
C17_Witness ==
    \E p \in Procs :
        /\ CheckoutDone(p)
        /\ CartLines(creq[p].pre.cart) = {}
        /\ Len(placed) = 1
        /\ creq[p].resp = "EmptyCart"

\* C18: after a successful create_from_cart on a cart with n >= 1 lines the
\* cart has no items and exactly one new Order exists, with n OrderItems,
\* status "pending" and payment_status "pending".
C18_CreateFromCartResult ==
    \A p \in Procs :
        (/\ CheckoutDone(p)
         /\ creq[p].resp = "ok"
         /\ Cardinality(CartLines(creq[p].pre.cart)) >= 1)
        => /\ CartLines(cart) = {}
           /\ NewPlaced(p) = 1
           /\ SubSeq(placed, 1, Len(creq[p].pre.placed)) = creq[p].pre.placed
           /\ LET ord == placed[Len(placed)]
              IN  /\ Cardinality(ord.items) = Cardinality(CartLines(creq[p].pre.cart))
                  /\ ord.status = "pending"
                  /\ ord.payment_status = "pending"

\* a checkout of a cart with two lines
C18_Witness ==
    \E p \in Procs :
        /\ CheckoutDone(p)
        /\ creq[p].resp = "ok"
        /\ Cardinality(CartLines(creq[p].pre.cart)) = 2
        /\ Cardinality(placed[Len(placed)].items) = 2
        /\ CartLines(cart) = {}

\* ----------------------------------------------------------- wait_for_db
\* the sum of f over the aliases in S
RECURSIVE SumOver(_, _)
SumOver(f, S) ==
    IF S = {} THEN 0
    ELSE LET a == CHOOSE x \in S : TRUE IN f[a] + SumOver(f, S \ {a})

AllAvailable == \A a \in Aliases : wfails0[a] = 0

\* C21: when every database is available, wait_for_db checks each alias of
\* DATABASES exactly once and then finishes: no alias is ever checked twice,
\* the command does not stop before its end, and at its end every alias has
\* been checked once.
C21_ReadyChecksOnce ==
    AllAvailable
    => /\ \A a \in Aliases : wchecks[a] <= 1
       /\ wpc = "done" \/ ENABLED NextWait
       /\ wpc = "done" => \A a \in Aliases : wchecks[a] = 1

C21_Witness ==
    /\ AllAvailable
    /\ wpc = "done"
    /\ \A a \in Aliases : wchecks[a] = 1
    /\ wdone = Aliases

\* C22: wait_for_db repeats the check of one alias after every
\* Psycopg2OpError or OperationalError until it succeeds and only then goes
\* to the next alias; when alias i fails f_i times before it is available,
\* the command ends, after exactly the sum of (f_i + 1) checks.
C22_RetriesUntilAvailable ==
    /\ [](\A i, j \in 1..Len(DATABASES) :
            (i < j /\ wchecks[DATABASES[j]] > 0)
            => /\ DATABASES[i] \in wdone
               /\ wchecks[DATABASES[i]] = wfails0[DATABASES[i]] + 1)
    /\ [](wpc = "done"
            => SumOver(wchecks, Aliases) = SumOver(wfails0, Aliases) + Len(DATABASES))
    /\ <>(wpc = "done")

\* the command has ended after two failures of the first and three of the
\* second database
C22_Witness ==
    /\ wpc = "done"
    /\ wfails0 = [a \in Aliases |-> IF a = DATABASES[1] THEN 2 ELSE 3]
    /\ SumOver(wchecks, Aliases) = 7

\* ------------------------------------------------- payment records
\* C23: payment.process_payment with the wallet method on an unpaid order
\* with sufficient balance succeeds also when the order already has a
\* Payment record: the record becomes "completed" and the order "paid".
C23_PayWithExistingPayment ==
    \A p \in Procs :
        (/\ Done(p)
         /\ req[p].op = "process_payment"
         /\ req[p].method = "wallet"
         /\ req[p].o \in Orders
         /\ req[p].pre.order.payment_status # "paid"
         /\ req[p].pre.balance >= req[p].pre.order.total_amount
         /\ req[p].pre.payment.exists
         /\ req[p].resp # DatabaseError)
        => /\ req[p].resp = "ok"
           /\ payments[req[p].o].status = "completed"
           /\ orders[req[p].o].payment_status = "paid"

\* C24: in every reachable state every order whose payment_status is "paid"
\* has a Payment record with status "completed", whichever of order.pay and
\* payment.process_payment paid it.
C24_PaidHasCompletedPayment ==
    \A o \in Orders :
        orders[o].payment_status = "paid"
        => payments[o].exists /\ payments[o].status = "completed"

\* the Payment status that goes with a payment_status of the order
PaymentStatusFor(ps) ==
    CASE ps = "pending" -> "pending"
      [] ps = "paid" -> "completed"
      [] ps = "failed" -> "failed"
      [] ps = "refunded" -> "refunded"

\* C25: whenever no request is under way, for every order that has a
\* Payment record the order's payment_status corresponds to the Payment's
\* status; and a payment.cancel never leaves an order "failed" that it
\* found "paid".
C25_StatusesCorrespond ==
    /\ AllIdle => \A o \in Orders :
                     payments[o].exists
                     => payments[o].status = PaymentStatusFor(orders[o].payment_status)
    /\ \A p \in Procs :
          (/\ Done(p)
           /\ req[p].op = "payment_cancel"
           /\ req[p].pre.order.payment_status = "paid")
          => orders[req[p].o].payment_status # "failed"

\* C27: an order whose status is "cancelled" is never debited: a pay request
\* (order.pay or payment.process_payment with the wallet) for a cancelled
\* order leaves the balance as it was and does not make the order "paid".
C27_CancelledNeverDebited ==
    \A p \in Procs :
        (/\ Done(p)
         /\ IsWalletPay(p)
         /\ req[p].pre.order.status = "cancelled"
         /\ req[p].pre.order.payment_status # "paid")
        => /\ balance = req[p].pre.balance
           /\ orders[req[p].o].payment_status # "paid"


\* C26: no order gets more back than was taken for it.  With the wallet
\* endpoints out of the way, every debit is the pay of an order and every
\* credit the cancel or the refund of one, and there is one order: what was
\* credited minus what was debited for it is the balance minus the balance
\* at the start.
C26_CreditsWithinDebits == balance <= initBalance

\* C28: two pay requests for the same unpaid order that overlap (order.pay
\* and/or payment.process_payment with the wallet method), and no other
\* request: when both have been answered, also when both were answered
\* with success, the wallet was debited by total_amount at most once.
C28_ConcurrentPayDebitsOnce ==
    (/\ nreq = 2
     /\ \A p \in Procs : Done(p) /\ IsWalletPay(p) /\ req[p].resp = "ok"
     /\ req[1].o = req[2].o)
    => balance >= initBalance - orders[req[1].o].total_amount

\* C29: two refund requests for the same completed wallet Payment that
\* overlap, after the one request that paid the order: when both have been
\* answered the wallet was credited with the payment amount at most once,
\* so it holds no more than at the start.
C29_ConcurrentRefundCreditsOnce ==
    (/\ nreq = 3
     /\ \A p \in Procs : /\ Done(p)
                         /\ req[p].op = "refund"
                         /\ req[p].payment.status = "completed"
                         /\ req[p].payment.payment_method = "wallet"
     /\ req[1].o = req[2].o)
    => balance <= initBalance

\* the sum of quantity x price over OrderItem rows
RECURSIVE OrderItems_sum(_)
OrderItems_sum(items) ==
    IF items = {} THEN 0
    ELSE LET it == CHOOSE x \in items : TRUE
         IN  it.quantity * it.price + OrderItems_sum(items \ {it})

\* C30: the Order a successful create_from_cart made has as total_amount
\* the sum of quantity x price over its OrderItems, also when cart requests
\* and price changes run between the steps of create_from_cart.
C30_TotalMatchesItems ==
    \A p \in Procs :
        (CartDone(p) /\ creq[p].op = "create_from_cart" /\ creq[p].resp = "ok")
        => placed[creq[p].oid].total_amount = OrderItems_sum(placed[creq[p].oid].items)
====
